---- MODULE Spec2Model ----
(***************************************************************************)
(* Model of gtfs-git-graph (src/src/main.rs): build_repository turns a set *)
(* of transit routes into a commit graph, one commit per stop, with merge  *)
(* commits at the stops that several routes share.                         *)
(*                                                                         *)
(* Route ids are the integers 1..n; their numeric order stands for the     *)
(* lexicographic order of the RouteId strings.  A stop is represented by   *)
(* its id alone: main.rs:528-539 derives the name of a GitStop from the    *)
(* feed's stop of that id, so the name is a function of the id.  The Oid   *)
(* of a commit is its position in the sequence of created commits.  The    *)
(* git2 repository is the store the code writes to: the commits it asked   *)
(* for, the branch references and HEAD.                                    *)
(***************************************************************************)
EXTENDS Integers, Sequences, FiniteSets, Bags, TLC

\* Bounds of the explored inputs.
NumRoutes == 2
NumStops == 5
MaxLen == 3
MaxVisits == 6
\* Bounds of the inputs of SpecManyRoutes.
ManyRoutes == 3
ShortLen == 2
FewVisits == 5

VARIABLES
    routes,           \* HashMap<RouteId, GitRoute>, argument of build_repository
    conflicts,        \* HashMap<StopId, Vec<RouteId>> of get_conflicts
    states,           \* HashMap<RouteId, RouteBuildState>
    repo,             \* the git repository: commits, refs/heads, HEAD
    pc,               \* position in build_repository
    bootstrapped,     \* routes already visited by the bootstrap loop
    statesOrder,      \* iteration order of the states map (<<>>: not yet observed)
    dependencies,     \* the map of the current pass (main.rs:221)
    visited,          \* keys of dependencies the for loop has consumed
    built_something,  \* the flag of main.rs:228
    panic             \* message of the panic that ended the run, "" if none

vars == <<routes, conflicts, states, repo, pc, bootstrapped, statesOrder,
          dependencies, visited, built_something, panic>>

Min(a, b) == IF a < b THEN a ELSE b

Range(f) == {f[i] : i \in DOMAIN f}

----------------------------------------------------------------------------
\* Inputs

\* The largest stop id used in a sequence of visits (0 for none).
RECURSIVE MaxStop(_)
MaxStop(s) ==
    IF s = <<>> THEN 0
    ELSE LET m == MaxStop(Tail(s)) IN IF Head(s) > m THEN Head(s) ELSE m

\* Visit sequences of length n in which stop ids are numbered in order of
\* first appearance.  The code reads stop ids only through equality and
\* hashing, so every input is such a sequence up to a renaming of its stops.
RECURSIVE Visits(_)
Visits(n) ==
    IF n = 0 THEN {<<>>}
    ELSE UNION {{Append(s, k) : k \in 1..Min(MaxStop(s) + 1, NumStops)} : s \in Visits(n - 1)}

\* Ways to give n routes their lengths, each 1..MaxLen, with at most budget visits.
RECURSIVE Lengths(_, _)
Lengths(n, budget) ==
    IF n = 0 THEN {<<>>}
    ELSE UNION {{Append(ls, l) : ls \in Lengths(n - 1, budget - l)} :
                l \in 1..Min(MaxLen, budget - (n - 1))}

RECURSIVE Sum(_)
Sum(s) == IF s = <<>> THEN 0 ELSE Head(s) + Sum(Tail(s))

GitRoute(id, stops) == [id |-> id, name |-> id, stops |-> stops]

\* The routes with ids id, id + 1, ...: each takes the next ls[i] visits of v.
RECURSIVE Split(_, _, _)
Split(v, ls, id) ==
    IF ls = <<>> THEN <<>>
    ELSE <<GitRoute(id, SubSeq(v, 1, Head(ls)))>>
         \o Split(SubSeq(v, Head(ls) + 1, Len(v)), Tail(ls), id + 1)

\* The lengths of the routes of an input: 1..NumRoutes routes of at most
\* MaxVisits stops in all.
RouteLengths == UNION {Lengths(n, MaxVisits) : n \in 1..NumRoutes}

\* Iteration orders of a map with key set S.
Orders(S) == {o \in [1..Cardinality(S) -> S] : \A i, j \in DOMAIN o : o[i] = o[j] => i = j}

----------------------------------------------------------------------------
\* GitRoute

stop(route, idx) == IF idx < Len(route.stops) THEN <<route.stops[idx + 1]>> ELSE <<>>

----------------------------------------------------------------------------
\* RouteBuildState

Untouched(max) == [tag |-> "Untouched", idx |-> 0, max |-> max, commit |-> 0]
Built(oid) == [tag |-> "Built", idx |-> 0, max |-> 0, commit |-> oid]
Pending(idx, max, oid) == [tag |-> "Pending", idx |-> idx, max |-> max, commit |-> oid]
\* The outcome of a transition that panics.
Panicked(msg) == [tag |-> "Panic", idx |-> 0, max |-> 0, commit |-> 0, msg |-> msg]

IsPanic(st) == st.tag = "Panic"

\* RouteBuildState::commit, as the set of Oids of the Option.
state_commit(st) == IF st.tag \in {"Built", "Pending"} THEN {st.commit} ELSE {}

\* did_commit without the arm that yields Built.
did_commit_never_built(self, oid, overflow_checks) ==
    CASE self.tag = "Built" -> Panicked("The route has already been built")
      [] self.tag = "Pending" -> Pending(self.idx + 1, self.max, oid)
      [] self.tag = "Untouched" -> Pending(0, self.max, oid)

\* RouteBuildState::did_commit.  max - 2 is a usize subtraction: below 2 it
\* panics in a build with overflow checks and wraps to a value no index equals
\* in a build without them.
did_commit(self, oid, overflow_checks) ==
    CASE self.tag = "Built" -> Panicked("The route has already been built")
      [] self.tag = "Pending" ->
            IF self.max < 2
            THEN IF overflow_checks
                 THEN Panicked("attempt to subtract with overflow")
                 ELSE Pending(self.idx + 1, self.max, oid)
            ELSE IF self.idx = self.max - 2
                 THEN Built(oid)
                 ELSE Pending(self.idx + 1, self.max, oid)
      [] self.tag = "Untouched" -> Pending(0, self.max, oid)

\* RouteBuildState::did_stop.  The arms are tried in the order of the match.
did_stop(self, index, oid) ==
    CASE self.tag = "Built" -> Panicked("The route has already been built")
      [] self.tag = "Untouched" ->
            IF index > 0
            THEN Panicked("The route has not been built, excessive index.")
            ELSE Pending(index, self.max, oid)
      [] self.tag = "Pending" ->
            IF self.idx + 1 # index THEN Panicked("The stop has already been built")
            ELSE IF self.idx >= self.max THEN Panicked("The line is normally already built.")
            ELSE IF index = self.max - 1 THEN Built(oid)
            ELSE Pending(index, self.max, oid)

\* initialize_states
initialize_states(rs) == [id \in DOMAIN rs |-> Untouched(Len(rs[id].stops))]

----------------------------------------------------------------------------
\* The repository

\* initialize_repo: no commit, no branch reference (0), HEAD on the initial
\* branch of Repository::init (0).
initialize_repo(rs) ==
    [commits |-> <<>>, refs |-> [b \in {rs[id].name : id \in DOMAIN rs} |-> 0], head |-> 0]

\* The two message formats: the stop name, and "<stop name> from merge".
stop_message(stop_id) == [stop |-> stop_id, from_merge |-> FALSE]
merge_message(stop_id) == [stop |-> stop_id, from_merge |-> TRUE]

\* add_commit_to_head: force refs/heads/<branch> to the commit.
add_commit_to_head(rp, branch, oid) == [rp EXCEPT !.refs[branch] = oid]

\* commit: HEAD is set to the branch, a commit with the given message and
\* parent list is created and the branch is moved to it.  The parent list is
\* kept as a bag: how often each Oid occurs in it, not in which order.  The
\* store is taken to accept every request: a refusal by git2 would be one
\* more panic of the unwrap calls of main.rs:63-85.
commit(rp, message, parents, branch) ==
    LET oid == Len(rp.commits) + 1
    IN  [oid |-> oid,
         repo |-> [commits |-> Append(rp.commits,
                                      [message |-> message, parents |-> parents, branch |-> branch]),
                   refs |-> [rp.refs EXCEPT ![branch] = oid],
                   head |-> branch]]

----------------------------------------------------------------------------
\* get_conflicts

\* Number of times a route visits a stop.
Occurrences(route, stop_id) == Cardinality({i \in DOMAIN route.stops : route.stops[i] = stop_id})

\* The Vec<RouteId> built for one stop: route.id is pushed once per visit.  It
\* is kept as a bag; the code reads its length and, for the stop's name, its
\* first element.
conflict_entry(rs, stop_id) ==
    LET through == {id \in DOMAIN rs : Occurrences(rs[id], stop_id) > 0}
    IN  [id \in through |-> Occurrences(rs[id], stop_id)]

get_conflicts(rs) ==
    LET all_stops == UNION {Range(rs[id].stops) : id \in DOMAIN rs}
        kept == {s \in all_stops : BagCardinality(conflict_entry(rs, s)) > 1}
    IN  [s \in kept |-> conflict_entry(rs, s)]

----------------------------------------------------------------------------
\* build_route_alone

\* The for loop of main.rs:118-134, from stop_idx on.
RECURSIVE build_route_loop(_, _, _, _, _)
build_route_loop(rp, route, state, conflict_keys, stop_idx) ==
    IF stop_idx >= Len(route.stops)
    THEN [state |-> state, repo |-> rp, panic |-> ""]
    ELSE LET stop_id == stop(route, stop_idx)[1]
         IN  IF stop_id \in conflict_keys
             THEN [state |-> state, repo |-> rp, panic |-> ""]
             ELSE LET parent == SetToBag(state_commit(state))
                      made == commit(rp, stop_message(stop_id), parent, route.name)
                      next == did_stop(state, stop_idx, made.oid)
                  IN  IF IsPanic(next)
                      THEN [state |-> state, repo |-> made.repo, panic |-> next.msg]
                      ELSE build_route_loop(made.repo, route, next, conflict_keys, stop_idx + 1)

\* build_route_alone without the early return for a Built state.
build_route_alone_without_return(rp, route, previous, conflict_keys) ==
    IF previous.tag = "Pending" /\ previous.idx + 1 >= Len(route.stops)
    THEN [state |-> Built(previous.commit), repo |-> rp, panic |-> ""]
    ELSE build_route_loop(rp, route, previous, conflict_keys,
                          IF previous.tag = "Pending" THEN previous.idx + 1 ELSE 0)

build_route_alone(rp, route, previous, conflict_keys) ==
    IF previous.tag = "Built"
    THEN [state |-> Built(previous.commit), repo |-> rp, panic |-> ""]
    ELSE IF previous.tag = "Pending" /\ previous.idx + 1 >= Len(route.stops)
    THEN [state |-> Built(previous.commit), repo |-> rp, panic |-> ""]
    ELSE build_route_loop(rp, route, previous, conflict_keys,
                          IF previous.tag = "Pending" THEN previous.idx + 1 ELSE 0)

----------------------------------------------------------------------------
\* find_dependencies

\* needed_index without the arm for Untouched states (main.rs:191-194).
needed_index_pending_only(state) ==
    IF state.tag = "Pending" THEN <<state.idx + 1>> ELSE <<>>

\* The index of the stop a state makes find_dependencies look up, if any.
needed_index(state) ==
    CASE state.tag = "Pending" -> <<state.idx + 1>>
      [] state.tag = "Untouched" -> <<0>>
      [] OTHER -> <<>>

\* The routes whose lookup stops().get(i).unwrap() finds no stop.
missing_stop(rs, sts) ==
    {id \in DOMAIN sts : needed_index(sts[id]) # <<>>
                         /\ stop(rs[id], needed_index(sts[id])[1]) = <<>>}

\* The stop id a route is grouped under.
needed_stop(rs, sts, id) == stop(rs[id], needed_index(sts[id])[1])[1]

\* order is the iteration order of the states map: it is the order of the
\* route ids inside every Vec of the result.
find_dependencies(rs, sts, order) ==
    IF missing_stop(rs, sts) # {}
    THEN [deps |-> <<>>, panic |-> "called Option::unwrap() on a None value"]
    ELSE LET waiting == {id \in DOMAIN sts : needed_index(sts[id]) # <<>>}
             keys == {needed_stop(rs, sts, id) : id \in waiting}
             group(s) == SelectSeq(order, LAMBDA id : id \in waiting /\ needed_stop(rs, sts, id) = s)
         IN  [deps |-> [s \in keys |-> group(s)], panic |-> ""]

----------------------------------------------------------------------------
\* One ready group of the for loop of build_repository (main.rs:238-288)

\* ready without the comparison of the lengths.
ready_any_group(cf, dep_stop_id, dep_routes) == Len(dep_routes) >= 1

\* main.rs:231-236: the group is processed only when it is as long as the
\* Vec get_conflicts built for its stop.
ready(cf, dep_stop_id, dep_routes) == BagCardinality(cf[dep_stop_id]) = Len(dep_routes)

\* merge_parents taking the parent from the host route alone.
merge_parents_host_only(sts, dep_routes) ==
    SetToBag(state_commit(sts[Head(dep_routes)]))

\* main.rs:258-262: the commit of every state of the group that has one.
RECURSIVE merge_parents(_, _)
merge_parents(sts, dep_routes) ==
    IF dep_routes = <<>> THEN EmptyBag
    ELSE SetToBag(state_commit(sts[Head(dep_routes)])) (+) merge_parents(sts, Tail(dep_routes))

\* main.rs:243: the route whose branch receives the merge commit.
host_route(dep_routes) == Head(dep_routes)

\* advance_heads moving no branch.
advance_heads_none(rp, rs, other_routes, oid) == rp

\* main.rs:265-268
RECURSIVE advance_heads(_, _, _, _)
advance_heads(rp, rs, other_routes, oid) ==
    IF other_routes = <<>> THEN rp
    ELSE advance_heads(add_commit_to_head(rp, rs[Head(other_routes)].name, oid),
                       rs, Tail(other_routes), oid)

\* update_states advancing the host route alone.
update_states_host_only(sts, dep_routes, oid, overflow_checks) ==
    [sts EXCEPT ![Head(dep_routes)] = did_commit(sts[Head(dep_routes)], oid, overflow_checks)]

\* update_states advancing every route that is not Built, in the group or not.
update_states_all(sts, dep_routes, oid, overflow_checks) ==
    [id \in DOMAIN sts |-> IF sts[id].tag # "Built"
                           THEN did_commit(sts[id], oid, overflow_checks)
                           ELSE sts[id]]

\* main.rs:275-278
update_states(sts, dep_routes, oid, overflow_checks) ==
    [id \in DOMAIN sts |-> IF id \in Range(dep_routes)
                           THEN did_commit(sts[id], oid, overflow_checks)
                           ELSE sts[id]]

\* main.rs:282-288
RECURSIVE continue_routes(_, _, _, _, _)
continue_routes(rp, rs, sts, conflict_keys, dep_routes) ==
    IF dep_routes = <<>>
    THEN [states |-> sts, repo |-> rp, panic |-> ""]
    ELSE LET id == Head(dep_routes)
             b == build_route_alone(rp, rs[id], sts[id], conflict_keys)
         IN  IF b.panic # ""
             THEN [states |-> sts, repo |-> b.repo, panic |-> b.panic]
             ELSE continue_routes(b.repo, rs, [sts EXCEPT ![id] = b.state],
                                  conflict_keys, Tail(dep_routes))

\* main.rs:238-288
solve_conflict(rp, rs, sts, cf, dep_stop_id, dep_routes, overflow_checks) ==
    IF \E id \in Range(dep_routes) : sts[id].tag = "Built"
    THEN [states |-> sts, repo |-> rp, panic |-> "The route has already been built"]
    ELSE LET host_route_name == rs[host_route(dep_routes)].name
             made == commit(rp, merge_message(dep_stop_id),
                            merge_parents(sts, dep_routes), host_route_name)
             moved == advance_heads(made.repo, rs, Tail(dep_routes), made.oid)
             updated == update_states(sts, dep_routes, made.oid, overflow_checks)
             failed == {id \in DOMAIN updated : IsPanic(updated[id])}
         IN  IF failed # {}
             THEN [states |-> sts, repo |-> moved,
                   panic |-> updated[CHOOSE id \in failed : TRUE].msg]
             ELSE continue_routes(moved, rs, updated, DOMAIN cf, dep_routes)

----------------------------------------------------------------------------
\* build_repository

\* The state after main.rs:201-206.
Init ==
    /\ \E ls \in RouteLengths : \E v \in Visits(Sum(ls)) : routes = Split(v, ls, 1)
    /\ conflicts = get_conflicts(routes)
    /\ states = initialize_states(routes)
    /\ repo = initialize_repo(routes)
    /\ pc = "bootstrap"
    /\ bootstrapped = {}
    /\ statesOrder = <<>>
    /\ dependencies = <<>>
    /\ visited = {}
    /\ built_something = FALSE
    /\ panic = ""

\* One iteration of the bootstrap loop, main.rs:209-215.  The routes map is
\* iterated once, in an order the hasher decides.
Bootstrap(id) ==
    /\ pc = "bootstrap"
    /\ id \in DOMAIN routes \ bootstrapped
    /\ LET b == build_route_alone(repo, routes[id], states[id], DOMAIN conflicts)
       IN  /\ repo' = b.repo
           /\ IF b.panic # ""
              THEN /\ pc' = "panicked"
                   /\ panic' = b.panic
                   /\ UNCHANGED <<states, bootstrapped>>
              ELSE /\ states' = [states EXCEPT ![id] = b.state]
                   /\ bootstrapped' = bootstrapped \cup {id}
                   /\ pc' = IF bootstrapped' = DOMAIN routes THEN "loop" ELSE "bootstrap"
                   /\ panic' = panic
    /\ UNCHANGED <<routes, conflicts, statesOrder, dependencies, visited, built_something>>

\* The head of the loop, main.rs:221-228.  The iteration order of the states
\* map is fixed when the map is built; it is first observed here.
FindDependencies ==
    /\ pc = "loop"
    /\ \E order \in Orders(DOMAIN states) :
          /\ statesOrder = <<>> \/ statesOrder = order
          /\ statesOrder' = order
          /\ LET found == find_dependencies(routes, states, order)
             IN  IF found.panic # ""
                 THEN /\ pc' = "panicked"
                      /\ panic' = found.panic
                      /\ UNCHANGED <<dependencies, visited, built_something>>
                 ELSE IF DOMAIN found.deps = {}
                 THEN /\ pc' = "returned"
                      /\ UNCHANGED <<dependencies, visited, built_something, panic>>
                 ELSE /\ pc' = "for"
                      /\ dependencies' = found.deps
                      /\ visited' = {}
                      /\ built_something' = FALSE
                      /\ panic' = panic
    /\ UNCHANGED <<routes, conflicts, states, repo, bootstrapped>>

\* One iteration of the for loop over the dependencies, main.rs:230-289.  The
\* map is iterated in an order the hasher decides.
VisitGroup(dep_stop_id) ==
    /\ pc = "for"
    /\ dep_stop_id \in DOMAIN dependencies \ visited
    /\ visited' = visited \cup {dep_stop_id}
    /\ LET dep_routes == dependencies[dep_stop_id]
       IN  IF dep_stop_id \notin DOMAIN conflicts
           THEN /\ pc' = "panicked"
                /\ panic' = "called Option::unwrap() on a None value"
                /\ UNCHANGED <<states, repo, built_something>>
           ELSE IF ~ready(conflicts, dep_stop_id, dep_routes)
           THEN UNCHANGED <<states, repo, built_something, pc, panic>>
           ELSE \E overflow_checks \in BOOLEAN :
                   LET out == solve_conflict(repo, routes, states, conflicts,
                                             dep_stop_id, dep_routes, overflow_checks)
                   IN  /\ states' = out.states
                       /\ repo' = out.repo
                       /\ built_something' = (Len(out.repo.commits) > Len(repo.commits)
                                              \/ built_something)
                       /\ pc' = IF out.panic # "" THEN "panicked" ELSE pc
                       /\ panic' = out.panic
    /\ UNCHANGED <<routes, conflicts, bootstrapped, statesOrder, dependencies>>

\* EndPass without the test of built_something.
EndPass_without_abort ==
    /\ pc = "for"
    /\ visited = DOMAIN dependencies
    /\ pc' = "loop"
    /\ UNCHANGED <<routes, conflicts, states, repo, bootstrapped, statesOrder,
                   dependencies, visited, built_something, panic>>

\* The end of a pass, main.rs:291-294.
EndPass ==
    /\ pc = "for"
    /\ visited = DOMAIN dependencies
    /\ IF ~built_something
       THEN /\ pc' = "panicked"
            /\ panic' = "Infinite loop detected."
       ELSE /\ pc' = "loop"
            /\ panic' = panic
    /\ UNCHANGED <<routes, conflicts, states, repo, bootstrapped, statesOrder,
                   dependencies, visited, built_something>>

\* The route ids of the inputs of Spec and of SpecManyRoutes.
RouteIds == 1..(IF NumRoutes > ManyRoutes THEN NumRoutes ELSE ManyRoutes)

Next ==
    \/ \E id \in RouteIds : Bootstrap(id)
    \/ FindDependencies
    \/ \E dep_stop_id \in 1..NumStops : VisitGroup(dep_stop_id)
    \/ EndPass

Spec == Init /\ [][Next]_vars

\* The same program on inputs of more and shorter routes: exactly ManyRoutes
\* routes of at most ShortLen stops each and FewVisits stops in all.
RECURSIVE ShortLengths(_, _)
ShortLengths(n, budget) ==
    IF n = 0 THEN {<<>>}
    ELSE UNION {{Append(ls, l) : ls \in ShortLengths(n - 1, budget - l)} :
                l \in 1..Min(ShortLen, budget - (n - 1))}

InitManyRoutes ==
    /\ \E ls \in ShortLengths(ManyRoutes, FewVisits) :
          \E v \in Visits(Sum(ls)) : routes = Split(v, ls, 1)
    /\ conflicts = get_conflicts(routes)
    /\ states = initialize_states(routes)
    /\ repo = initialize_repo(routes)
    /\ pc = "bootstrap"
    /\ bootstrapped = {}
    /\ statesOrder = <<>>
    /\ dependencies = <<>>
    /\ visited = {}
    /\ built_something = FALSE
    /\ panic = ""

SpecManyRoutes == InitManyRoutes /\ [][Next]_vars

----------------------------------------------------------------------------
\* Vocabulary of the properties

Deadlock == "Infinite loop detected."

Terminated == pc \in {"returned", "panicked"}

RouteStops(id) == Range(routes[id].stops)

AllStops == UNION {RouteStops(id) : id \in DOMAIN routes}

\* The distinct routes that pass through a stop.
Through(s) == {id \in DOMAIN routes : s \in RouteStops(id)}

Shared(s) == Cardinality(Through(s)) >= 2

AllBuilt == \A id \in DOMAIN states : states[id].tag = "Built"

TotalStops == Sum([id \in DOMAIN routes |-> Len(routes[id].stops)])

\* The stop a route needs next: index 0 if Untouched, builtIndex + 1 if Pending.
NextIndex(st) == IF st.tag = "Untouched" THEN 0 ELSE st.idx + 1

Needs(id, s) ==
    /\ states[id].tag # "Built"
    /\ NextIndex(states[id]) < Len(routes[id].stops)
    /\ routes[id].stops[NextIndex(states[id]) + 1] = s

\* The Oids of the commits made for a stop.
CommitsOf(s) == {c \in DOMAIN repo.commits : repo.commits[c].message.stop = s}

MergeCommits == {c \in DOMAIN repo.commits : repo.commits[c].message.from_merge}

\* The step visits the group of stop s and creates its merge commit, which is
\* the first commit the step adds.
Merges(s) ==
    /\ pc = "for"
    /\ s \in visited' \ visited
    /\ Len(repo'.commits) > Len(repo.commits)
    /\ repo'.commits[Len(repo.commits) + 1].message = merge_message(s)

NewMerge == repo'.commits[Len(repo.commits) + 1]

Smallest(S) == CHOOSE x \in S : \A y \in S : x <= y

----------------------------------------------------------------------------
\* C1

PairwiseDisjoint ==
    \A a, b \in DOMAIN routes : a # b => RouteStops(a) \cap RouteStops(b) = {}

\* The commits created on the branch of a route.
OnBranch(id) == {c \in DOMAIN repo.commits : repo.commits[c].branch = routes[id].name}

\* C1: when the stop sets of the routes are pairwise disjoint (routes of one
\* stop included), the run does not abort and never creates a merge commit,
\* and when it returns every route is Built, each route's branch carries one
\* commit per stop of the route and the commits number the sum of the route
\* lengths.
C1_NoConflictScenario ==
    PairwiseDisjoint =>
        /\ pc # "panicked"
        /\ MergeCommits = {}
        /\ pc = "returned" =>
              /\ AllBuilt
              /\ Len(repo.commits) = TotalStops
              /\ \A id \in DOMAIN routes : Cardinality(OnBranch(id)) = Len(routes[id].stops)

----------------------------------------------------------------------------
\* C2

\* The stops that come right before s in some route.
Predecessors(s) ==
    UNION {{routes[id].stops[i] : i \in {j \in 1..(Len(routes[id].stops) - 1) : routes[id].stops[j + 1] = s}} :
           id \in Through(s)}

TheCommitOf(s) == CHOOSE c \in CommitsOf(s) : TRUE

ParentsOf(c) == BagToSet(repo.commits[c].parents)

\* C2: when the run returns, there is exactly one commit per distinct stop id,
\* a merge commit if the stop is shared and an ordinary one otherwise; along
\* every route the commit of a stop is a parent of the commit of the next
\* stop; and a commit has no other parents than the commits of the stops that
\* precede its stop in some route, so the commit of a route's first stop has
\* no parent from that route.
C2_GraphMirrorsRoutes ==
    pc = "returned" =>
        /\ Len(repo.commits) = Cardinality(AllStops)
        /\ \A s \in AllStops :
              /\ Cardinality(CommitsOf(s)) = 1
              /\ repo.commits[TheCommitOf(s)].message.from_merge = Shared(s)
              /\ ParentsOf(TheCommitOf(s)) = {TheCommitOf(p) : p \in Predecessors(s)}
        /\ \A id \in DOMAIN routes :
              /\ \A i \in 1..(Len(routes[id].stops) - 1) :
                    TheCommitOf(routes[id].stops[i]) \in ParentsOf(TheCommitOf(routes[id].stops[i + 1]))
              /\ \A p \in ParentsOf(TheCommitOf(routes[id].stops[1])) :
                    repo.commits[p].message.stop \notin RouteStops(id)

\* A = [S1, S2, S3] and B = [S4, S2, S5] have returned with 5 commits: S2's
\* merge commit has the commits of S1 and S4 as parents and is the only parent
\* of the commits of S3 and S5.
C2_Witness ==
    /\ pc = "returned"
    /\ DOMAIN routes = {1, 2}
    /\ routes[1].stops = <<1, 2, 3>>
    /\ routes[2].stops = <<4, 2, 5>>
    /\ Len(repo.commits) = 5
    /\ repo.commits[TheCommitOf(2)].message.from_merge
    /\ ParentsOf(TheCommitOf(2)) = {TheCommitOf(1), TheCommitOf(4)}
    /\ ParentsOf(TheCommitOf(3)) = {TheCommitOf(2)}
    /\ ParentsOf(TheCommitOf(5)) = {TheCommitOf(2)}

----------------------------------------------------------------------------
\* C3

\* C3: the ConflictSet has exactly the stops that at least 2 distinct routes
\* pass through as keys, and maps each to the set of those routes, every
\* route counted once however often it visits the stop.
C3_ConflictSet ==
    /\ DOMAIN conflicts = {s \in AllStops : Shared(s)}
    /\ \A s \in DOMAIN conflicts :
          /\ conflicts[s] = SetToBag(Through(s))
          /\ BagCardinality(conflicts[s]) = Cardinality(Through(s))

----------------------------------------------------------------------------
\* C4

\* C4: a merge commit for a stop is created only in a state where every route
\* that passes through the stop is not Built and needs that stop next, and
\* visiting a group with fewer routes than pass through its stop creates no
\* commit.
C4_NoPartialMerges ==
    [][\A s \in AllStops :
          /\ (\E c \in (Len(repo.commits) + 1)..Len(repo'.commits) :
                 repo'.commits[c].message = merge_message(s))
             => \A id \in Through(s) : Needs(id, s)
          /\ (/\ pc = "for"
              /\ s \in visited' \ visited
              /\ Len(dependencies[s]) < Cardinality(Through(s)))
             => repo'.commits = repo.commits]_vars

\* A merge commit exists for a stop of two routes, one that starts at the stop
\* and one that reaches it after a stop of its own.
C4_Witness ==
    \E c \in MergeCommits :
        LET s == repo.commits[c].message.stop
        IN  /\ Cardinality(Through(s)) = 2
            /\ \E id \in Through(s) : routes[id].stops[1] = s
            /\ \E id \in Through(s) : routes[id].stops[1] # s

----------------------------------------------------------------------------
\* C5

Forward(before, after) ==
    CASE before.tag = "Built" -> after = before
      [] before.tag = "Pending" ->
            \/ after.tag = "Built"
            \/ after.tag = "Pending" /\ after.idx >= before.idx /\ after.max = before.max
      [] before.tag = "Untouched" ->
            \/ after = before
            \/ after.tag = "Built"
            \/ after.tag = "Pending" /\ after.max = before.max

\* C5: the build state of a route only moves forward, from Untouched to
\* Pending with a built index that never decreases to Built; a Built state is
\* never replaced; and when the run returns every route is Built.
C5_StatesMoveForward ==
    /\ [][\A id \in DOMAIN states : Forward(states[id], states'[id])]_vars
    /\ [](pc = "returned" => AllBuilt)

\* The run has returned with a route that went through a merge at other than
\* its first and last stop, so through Untouched, Pending and Built.
C5_Witness ==
    /\ pc = "returned"
    /\ AllBuilt
    /\ \E id \in DOMAIN routes :
          /\ Len(routes[id].stops) = 3
          /\ Shared(routes[id].stops[2])

----------------------------------------------------------------------------
\* C6

\* The stops of a route that have a commit.
BuiltCount(id) ==
    CASE states[id].tag = "Untouched" -> 0
      [] states[id].tag = "Pending" -> states[id].idx + 1
      [] states[id].tag = "Built" -> Len(routes[id].stops)

\* The stops that remain to be built, summed over the routes; a pass that has
\* built something counts one more until it ends.
Remaining ==
    Sum([id \in DOMAIN routes |-> Len(routes[id].stops) - BuiltCount(id)])
    + (IF pc = "for" /\ built_something THEN 1 ELSE 0)

\* The steps build_repository can still take without building a stop.
Rank ==
    CASE pc = "bootstrap" -> NumStops + 3 + Cardinality(DOMAIN routes \ bootstrapped)
      [] pc = "loop" -> NumStops + 2
      [] pc = "for" -> 1 + Cardinality(DOMAIN dependencies \ visited)
      [] OTHER -> 0

Measure == Remaining * (NumRoutes + NumStops + 4) + Rank

\* Every step of a run decreases a measure that is never negative, so every
\* run ends after finitely many passes: the termination argument of the
\* driver, with the remaining stops as the leading term.
RunDescends == [](Measure >= 0) /\ [][Measure' < Measure]_vars

\* C6: every run ends, and ends either returning with all routes Built or
\* with the deadlock abort: a run that has ended has ended in one of the two.
C6_EndsBuiltOrDeadlock ==
    Terminated =>
        \/ pc = "returned" /\ AllBuilt
        \/ pc = "panicked" /\ panic = Deadlock

----------------------------------------------------------------------------
\* C7

\* A group of the current pass is ready: every route through its stop, and at
\* least 2, is in it.
ReadyGroup(s) ==
    /\ Cardinality(Through(s)) >= 2
    /\ Len(dependencies[s]) = Cardinality(Through(s))

NoReadyGroup == pc = "for" /\ \A s \in DOMAIN dependencies : ~ReadyGroup(s)

\* C7: in a pass whose frontier has no ready group, no step creates a commit
\* or changes a route state or a branch head, no further pass is started, and
\* the pass ends in the deadlock abort.
C7_DeadlockDetected ==
    [][NoReadyGroup =>
          /\ UNCHANGED <<states, repo>>
          /\ pc' \in {"for", "panicked"}
          /\ pc' = "panicked" => panic' = Deadlock
          /\ visited = DOMAIN dependencies => pc' = "panicked"]_vars

\* A = [S1, S2], B = [S2, S1] has aborted with the deadlock error, without a
\* commit.
C7_Witness ==
    /\ pc = "panicked"
    /\ panic = Deadlock
    /\ DOMAIN routes = {1, 2}
    /\ routes[1].stops = <<1, 2>>
    /\ routes[2].stops = <<2, 1>>
    /\ repo.commits = <<>>

----------------------------------------------------------------------------
\* C8

ReversedRoutes ==
    /\ DOMAIN routes = {1, 2}
    /\ routes[1].stops = <<1, 2, 3>>
    /\ routes[2].stops = <<3, 2, 1>>

\* C8: for A = [S1, S2, S3] and B = [S3, S2, S1] the run does not abort, and
\* when it returns both routes are Built on one chain of three commits.
C8_ReversedRouteScenario ==
    ReversedRoutes =>
        /\ pc # "panicked"
        /\ pc = "returned" =>
              /\ AllBuilt
              /\ Len(repo.commits) = 3
              /\ states[1].commit = states[2].commit

----------------------------------------------------------------------------
\* C9

\* C9: the parent list of a merge commit holds the head commit of every
\* Pending route of its group, nothing else, and no commit twice.
C9_MergeParents ==
    [][\A s \in AllStops :
          Merges(s) =>
             NewMerge.parents =
                SetToBag({states[id].commit : id \in {r \in Range(dependencies[s]) : states[r].tag = "Pending"}})]_vars

----------------------------------------------------------------------------
\* C10

\* C10: the merge commit of a group is created on the branch of the smallest
\* route id of the group, whatever the iteration order of the maps.
C10_HostIsSmallestRoute ==
    [][\A s \in AllStops :
          Merges(s) => NewMerge.branch = routes[Smallest(Range(dependencies[s]))].name]_vars

----------------------------------------------------------------------------
\* C11

\* The merge commits made for a stop.
MergesOf(s) == CommitsOf(s) \cap MergeCommits

\* C11: a pass begins with a frontier none of whose stops has a merge commit,
\* the frontier and the commits already made stay as they are during the pass,
\* and a pass that ends otherwise than in the deadlock abort ends with a merge
\* commit for a stop of its frontier: it created at least one merge commit.
C11_PassCreatesMerge ==
    /\ [][pc = "loop" /\ pc' = "for" =>
             /\ DOMAIN dependencies' # {}
             /\ \A s \in DOMAIN dependencies' : MergesOf(s)' = {}]_vars
    /\ [][pc = "for" =>
             /\ dependencies' = dependencies
             /\ SubSeq(repo'.commits, 1, Len(repo.commits)) = repo.commits]_vars
    /\ [][pc = "for" /\ pc' # "for" /\ ~(pc' = "panicked" /\ panic' = Deadlock) =>
             \E s \in DOMAIN dependencies : MergesOf(s) # {}]_vars

\* A pass has ended with a merge commit and routes are left for a next pass.
C11_Witness ==
    /\ pc = "loop"
    /\ MergeCommits # {}
    /\ ~AllBuilt

----------------------------------------------------------------------------
\* C12

\* The step runs build_route_alone for route id and the call returns: in the
\* bootstrap loop, or after the merge of a group the route belongs to.
BuilderRan(id) ==
    /\ pc' # "panicked"
    /\ \/ pc = "bootstrap" /\ id \in bootstrapped' \ bootstrapped
       \/ \E s \in AllStops : Merges(s) /\ id \in Range(dependencies[s])

\* The index the call resumes at: the next index of the state it is given,
\* which after a merge is the state the merge has advanced by one.
ResumePoint(id) ==
    IF pc = "bootstrap" THEN NextIndex(states[id]) ELSE NextIndex(states[id]) + 1

\* The ordinary commits the step creates on the branch of route id.
NewStopCommits(id) ==
    {c \in (Len(repo.commits) + 1)..Len(repo'.commits) :
        /\ repo'.commits[c].branch = routes[id].name
        /\ ~repo'.commits[c].message.from_merge}

Nth(S, k) == CHOOSE x \in S : Cardinality({y \in S : y < x}) = k - 1

IsConflictStop(s) == s \in DOMAIN conflicts

\* C12: a call of build_route_alone creates no commit for a conflict stop; it
\* creates one commit for each stop from the resume point on, in order, up to
\* the first conflict stop or the end of the route; and when it returns the
\* route is Built or the stop it needs next is a conflict stop.
C12_BuilderStopsAtConflict ==
    [][\A id \in DOMAIN routes :
          BuilderRan(id) =>
             LET from == ResumePoint(id)
                 n == Cardinality(NewStopCommits(id))
                 stops == routes[id].stops
             IN  /\ \A c \in NewStopCommits(id) : ~IsConflictStop(repo'.commits[c].message.stop)
                 /\ from + n <= Len(stops)
                 /\ \A k \in 1..n :
                       repo'.commits[Nth(NewStopCommits(id), k)].message.stop = stops[from + k]
                 /\ from + n < Len(stops) => IsConflictStop(stops[from + n + 1])
                 /\ \/ states'[id].tag = "Built"
                    \/ /\ NextIndex(states'[id]) < Len(stops)
                       /\ IsConflictStop(stops[NextIndex(states'[id]) + 1])]_vars

----------------------------------------------------------------------------
\* C13

\* The states of a route of the given length that still has a stop to build,
\* with the index of that stop: Untouched with index 0, Pending(idx) with
\* index idx + 1.
Advanceable(length) ==
    {<<Untouched(length), 0>>}
    \cup {<<Pending(idx, length, oid), idx + 1>> : idx \in 0..(length - 2), oid \in 1..2}

\* C13: for every route of the input, whatever its length from 1 on, from
\* Untouched with index 0 and from Pending(idx) with index idx + 1, did_stop
\* yields Built(oid) when the index is the last index of the route and
\* Pending(index, length, oid) otherwise.
C13_DidStop ==
    \A id \in DOMAIN routes :
        LET length == Len(routes[id].stops)
        IN  \A a \in Advanceable(length) : \A oid \in 3..4 :
                did_stop(a[1], a[2], oid) =
                    IF a[2] = length - 1 THEN Built(oid) ELSE Pending(a[2], length, oid)

----------------------------------------------------------------------------
\* C14

Participants(s) == Range(dependencies[s])

\* C14: for every route of the input, that is in the state a run starts in,
\* did_commit yields Pending(0, length, oid) from Untouched(length) and,
\* from Pending(idx, length, _) with a stop left to build, Built(oid) when idx
\* is length - 2 and Pending(idx + 1, length, oid) otherwise; and where a run
\* applies it, to the states of the participants of a merge, length - 2 does
\* not underflow, the call does not panic, and a Pending result has a built
\* index below the length and holds the merge commit.
C14_DidCommit ==
    /\ \A id \in DOMAIN routes :
          LET length == Len(routes[id].stops)
          IN  \A a \in Advanceable(length) : \A oid \in 3..4 : \A overflow_checks \in BOOLEAN :
                  did_commit(a[1], oid, overflow_checks) =
                      IF a[1].tag = "Untouched" THEN Pending(0, length, oid)
                      ELSE IF a[1].idx = length - 2 THEN Built(oid)
                      ELSE Pending(a[1].idx + 1, length, oid)
    /\ [][\A s \in AllStops :
             Merges(s) =>
                /\ panic' # "attempt to subtract with overflow"
                /\ \A id \in Participants(s) : \A overflow_checks \in BOOLEAN :
                      LET after == did_commit(states[id], Len(repo.commits) + 1, overflow_checks)
                      IN  /\ states[id].tag = "Pending" => states[id].max >= 2
                          /\ ~IsPanic(after)
                          /\ after.commit = Len(repo.commits) + 1
                          /\ after.tag = "Pending" => after.idx < after.max]_vars

\* A = [S1, S2] and B = [S2, S3] have returned: the merge of S2 took A from
\* Pending(0, 2) to Built and B from Untouched(2) to Pending(0, 2).
C14_Witness ==
    /\ pc = "returned"
    /\ DOMAIN routes = {1, 2}
    /\ routes[1].stops = <<1, 2>>
    /\ routes[2].stops = <<2, 3>>
    /\ MergesOf(2) # {}
    /\ states[1] = Built(TheCommitOf(2))
    /\ states[2] = Built(TheCommitOf(3))

----------------------------------------------------------------------------
\* C15

\* The states a route of the given length can be given.
StatesOf(length) ==
    {Untouched(length)}
    \cup {Built(oid) : oid \in 1..2}
    \cup {Pending(idx, length, oid) : idx \in 0..(length - 1), oid \in 1..2}

\* An explicit index did_stop must refuse.
IllegalIndex(st, index) ==
    \/ st.tag = "Built"
    \/ st.tag = "Untouched" /\ index # 0
    \/ st.tag = "Pending" /\ index # st.idx + 1

\* did_stop and did_commit panic on a Built state, and did_stop panics on an
\* index other than 0 from Untouched or idx + 1 from Pending.
IllegalTransitionsPanic ==
    \A id \in DOMAIN routes :
        LET length == Len(routes[id].stops)
        IN  \A st \in StatesOf(length) : \A oid \in 3..4 :
                /\ st.tag = "Built" =>
                      \A overflow_checks \in BOOLEAN : IsPanic(did_commit(st, oid, overflow_checks))
                /\ \A index \in 0..length :
                      IllegalIndex(st, index) => IsPanic(did_stop(st, index, oid))

\* The state the merge of the step hands to build_route_alone for a participant.
AfterMerge(id, overflow_checks) == did_commit(states[id], Len(repo.commits) + 1, overflow_checks)

\* C15: did_stop and did_commit panic on a Built state and did_stop panics on
\* an out-of-order index; a panic ends the run and leaves the route states as
\* they were; and a route is made Built only by did_commit with the merge
\* commit of the step or by did_stop with a commit the builder creates in the
\* step: the builder never turns the Pending state it is given into Built
\* without creating a commit.
C15_IllegalTransitionsFail ==
    /\ []IllegalTransitionsPanic
    /\ [][pc' = "panicked" => states' = states]_vars
    /\ [][\A id \in DOMAIN routes :
             /\ pc = "bootstrap" /\ states[id].tag # "Built" /\ states'[id].tag = "Built"
                   => states'[id].commit \in NewStopCommits(id)
             /\ \A s \in AllStops :
                   Merges(s) /\ id \in Participants(s) /\ states'[id].tag = "Built" =>
                      \A overflow_checks \in BOOLEAN :
                         \/ AfterMerge(id, overflow_checks) = states'[id]
                         \/ states'[id].commit \in NewStopCommits(id)]_vars

----------------------------------------------------------------------------
\* C16

DistinctBranchNames ==
    \A a, b \in DOMAIN routes : routes[a].name = routes[b].name => a = b

BranchHead(rp, id) == rp.refs[routes[id].name]

\* The repository right after the merge commit of group s is created and the
\* heads of the other routes are advanced, before the builder is re-invoked.
RightAfterMerge(s) ==
    LET dep_routes == dependencies[s]
        made == commit(repo, merge_message(s), merge_parents(states, dep_routes),
                       routes[host_route(dep_routes)].name)
    IN  advance_heads(made.repo, routes, Tail(dep_routes), made.oid)

\* C16: with distinct branch names, in every state the branch of each route
\* that is not Untouched points at the commit of its build state, so on
\* return at the final commit of the route; and right after a merge one
\* commit has been added, the merge commit of the step, the branch of the host
\* and of every other participant points at it, each other participant, which
\* occurs once in the group, had its branch moved without a commit of its
\* own, and the branches of the routes outside the group are where they were.
C16_BranchHeadsTrackState ==
    /\ [](DistinctBranchNames =>
             \A id \in DOMAIN routes :
                states[id].tag # "Untouched" => BranchHead(repo, id) = states[id].commit)
    /\ [][\A s \in AllStops :
             DistinctBranchNames /\ Merges(s) =>
                LET after == RightAfterMerge(s)
                    oid == Len(repo.commits) + 1
                IN  /\ Len(after.commits) = oid
                    /\ after.commits[oid] = NewMerge
                    /\ Cardinality(Participants(s)) = Len(dependencies[s])
                    /\ \A id \in Participants(s) : BranchHead(after, id) = oid
                    /\ \A id \in DOMAIN routes \ Participants(s) :
                          /\ BranchHead(after, id) = BranchHead(repo, id)
                          /\ BranchHead(repo', id) = BranchHead(repo, id)
                    /\ Cardinality({c \in (oid + 1)..Len(repo'.commits) :
                                       repo'.commits[c].message.from_merge}) = 0]_vars

\* A = [S1, S2] and B = [S3, S2] have returned: both branches point at the one
\* merge commit of S2, which was created on the branch of the host only.
C16_Witness ==
    /\ pc = "returned"
    /\ DOMAIN routes = {1, 2}
    /\ routes[1].stops = <<1, 2>>
    /\ routes[2].stops = <<3, 2>>
    /\ MergesOf(2) # {}
    /\ BranchHead(repo, 1) = TheCommitOf(2)
    /\ BranchHead(repo, 2) = TheCommitOf(2)
    /\ Len(repo.commits) = 3

----------------------------------------------------------------------------
\* C17

\* The number of stops of a route of the given length a state records as built.
BuiltStops(st, length) ==
    CASE st.tag = "Untouched" -> 0
      [] st.tag = "Pending" -> st.idx + 1
      [] st.tag = "Built" -> length

\* The stops not yet built, summed over the routes.
Unbuilt == Sum([id \in DOMAIN routes |-> Len(routes[id].stops) - BuiltCount(id)])

\* C17: the group of every merge consists of at least 2 distinct routes;
\* did_commit advances each of them by exactly one stop, Untouched to index 0
\* and Pending(k) to index k + 1 or to Built; and the number of unbuilt stops
\* summed over all routes, which no step increases, decreases by at least the
\* size of the group in the step of the merge, so in every pass with a merge.
C17_MergeAdvancesParticipants ==
    [][/\ Unbuilt' <= Unbuilt
       /\ \A s \in AllStops :
             Merges(s) =>
                /\ Cardinality(Participants(s)) >= 2
                /\ Cardinality(Participants(s)) = Len(dependencies[s])
                /\ \A id \in Participants(s) : \A overflow_checks \in BOOLEAN :
                      LET after == AfterMerge(id, overflow_checks)
                          length == Len(routes[id].stops)
                      IN  /\ BuiltStops(after, length) = BuiltStops(states[id], length) + 1
                          /\ states[id].tag = "Untouched" => after = Pending(0, length, after.commit)
                          /\ BuiltStops(states'[id], length) >= BuiltStops(after, length)
                /\ Unbuilt' <= Unbuilt - Cardinality(Participants(s))]_vars

\* A = [S1, S2, S3] and B = [S2, S3] right after the merge of S2: A went from
\* Pending(0) to Pending(1) and B from Untouched to Pending(0), both at the
\* merge commit.
C17_Witness ==
    /\ pc = "for"
    /\ DOMAIN routes = {1, 2}
    /\ routes[1].stops = <<1, 2, 3>>
    /\ routes[2].stops = <<2, 3>>
    /\ MergesOf(2) # {}
    /\ states[1] = Pending(1, 3, TheCommitOf(2))
    /\ states[2] = Pending(0, 2, TheCommitOf(2))

----------------------------------------------------------------------------
\* C18

\* C18: for every route of the input, every set of conflict stops and every
\* commit c, in the state a run starts in, and with the ConflictSet of the run
\* in every later state, build_route_alone given Built(c) returns Built(c) and
\* the repository it was given, without a panic: no commit is created and no
\* branch is moved.  Where a run makes such a call, for a participant the
\* merge has made Built, the route stays Built at the merge commit, no commit
\* is created on its branch and its branch stays at the merge commit.
C18_BuilderNoOpOnBuilt ==
    /\ \A id \in DOMAIN routes : \A conflict_keys \in SUBSET AllStops : \A c \in 1..2 :
          build_route_alone(repo, routes[id], Built(c), conflict_keys)
             = [state |-> Built(c), repo |-> repo, panic |-> ""]
    /\ [](\A id \in DOMAIN routes : \A c \in 1..(Len(repo.commits) + 1) :
             build_route_alone(repo, routes[id], Built(c), DOMAIN conflicts)
                = [state |-> Built(c), repo |-> repo, panic |-> ""])
    /\ [][\A s \in AllStops : \A id \in DOMAIN routes : \A overflow_checks \in BOOLEAN :
             /\ Merges(s)
             /\ id \in Participants(s)
             /\ AfterMerge(id, overflow_checks).tag = "Built"
             => /\ states'[id] = Built(Len(repo.commits) + 1)
                /\ NewStopCommits(id) = {}
                /\ BranchHead(repo', id) = Len(repo.commits) + 1]_vars

\* A = [S1, S2] and B = [S3, S2] right after the merge of S2, their last
\* stop: the merge made both Built and the builder, re-invoked for both, left
\* the three commits and both states as they were.
C18_Witness ==
    /\ pc = "for"
    /\ DOMAIN routes = {1, 2}
    /\ routes[1].stops = <<1, 2>>
    /\ routes[2].stops = <<3, 2>>
    /\ MergesOf(2) # {}
    /\ states[1] = Built(3)
    /\ states[2] = Built(3)
    /\ Len(repo.commits) = 3

----------------------------------------------------------------------------
\* C19

UnwrapNone == "called Option::unwrap() on a None value"

\* C19: whenever find_dependencies is about to run, every route that is not
\* Built has its next-needed index inside its stop sequence and the stop at
\* that index is a key of the ConflictSet; and no run ends in the panic of a
\* failed lookup.
C19_FrontierWellDefined ==
    /\ pc = "loop" =>
          \A id \in DOMAIN routes :
             states[id].tag # "Built" =>
                /\ NextIndex(states[id]) < Len(routes[id].stops)
                /\ IsConflictStop(routes[id].stops[NextIndex(states[id]) + 1])
    /\ panic # UnwrapNone

----------------------------------------------------------------------------
\* C20

\* The groups of a frontier that hold a route, counted with their occurrences.
GroupsOf(deps, id) == {<<s, i>> \in (DOMAIN deps) \X (DOMAIN routes) :
                          i \in DOMAIN deps[s] /\ deps[s][i] = id}

----------------------------------------------------------------------------
\* C21

\* The elements of a set of numbers in ascending order.
RECURSIVE Ascending(_)
Ascending(S) ==
    IF S = {} THEN <<>> ELSE <<Smallest(S)>> \o Ascending(S \ {Smallest(S)})

\* The bootstrap loop of main.rs:209-215 with the routes taken in the order ids.
RECURSIVE bootstrap_in_order(_, _, _, _, _)
bootstrap_in_order(rp, rs, sts, cf, ids) ==
    IF ids = <<>> THEN [states |-> sts, repo |-> rp, panic |-> ""]
    ELSE LET b == build_route_alone(rp, rs[Head(ids)], sts[Head(ids)], DOMAIN cf)
         IN  IF b.panic # ""
             THEN [states |-> sts, repo |-> b.repo, panic |-> b.panic]
             ELSE bootstrap_in_order(b.repo, rs, [sts EXCEPT ![Head(ids)] = b.state], cf, Tail(ids))

\* The for loop of main.rs:230-289 with the groups taken in the order stops.
RECURSIVE pass_in_order(_, _, _, _, _, _, _)
pass_in_order(rp, rs, sts, cf, deps, stops, built) ==
    IF stops = <<>> THEN [states |-> sts, repo |-> rp, panic |-> "", built_something |-> built]
    ELSE LET s == Head(stops)
         IN  IF s \notin DOMAIN cf
             THEN [states |-> sts, repo |-> rp, panic |-> "called Option::unwrap() on a None value",
                   built_something |-> built]
             ELSE IF ~ready(cf, s, deps[s])
             THEN pass_in_order(rp, rs, sts, cf, deps, Tail(stops), built)
             ELSE LET out == solve_conflict(rp, rs, sts, cf, s, deps[s], TRUE)
                  IN  IF out.panic # ""
                      THEN [states |-> out.states, repo |-> out.repo, panic |-> out.panic,
                            built_something |-> TRUE]
                      ELSE pass_in_order(out.repo, rs, out.states, cf, deps, Tail(stops), TRUE)

\* The loop of main.rs:218-294 with every map iterated in ascending key order.
RECURSIVE loop_in_order(_, _, _, _)
loop_in_order(rp, rs, sts, cf) ==
    LET found == find_dependencies(rs, sts, Ascending(DOMAIN sts))
    IN  IF found.panic # "" THEN [pc |-> "panicked", panic |-> found.panic, repo |-> rp]
        ELSE IF DOMAIN found.deps = {} THEN [pc |-> "returned", panic |-> "", repo |-> rp]
        ELSE LET p == pass_in_order(rp, rs, sts, cf, found.deps, Ascending(DOMAIN found.deps), FALSE)
             IN  IF p.panic # "" THEN [pc |-> "panicked", panic |-> p.panic, repo |-> p.repo]
                 ELSE IF ~p.built_something
                 THEN [pc |-> "panicked", panic |-> "Infinite loop detected.", repo |-> p.repo]
                 ELSE loop_in_order(p.repo, rs, p.states, cf)

\* build_repository with every map iterated in ascending key order.
build_repository_in_order(rs) ==
    LET cf == get_conflicts(rs)
        b == bootstrap_in_order(initialize_repo(rs), rs, initialize_states(rs), cf,
                                Ascending(DOMAIN rs))
    IN  IF b.panic # "" THEN [pc |-> "panicked", panic |-> b.panic, repo |-> b.repo]
        ELSE loop_in_order(b.repo, rs, b.states, cf)

\* The commit graph up to commit ids: every commit as its message with the
\* messages of its parents.
Graph(rp) ==
    {[message |-> rp.commits[c].message,
      parents |-> {rp.commits[p].message : p \in BagToSet(rp.commits[c].parents)}] :
        c \in DOMAIN rp.commits}

\* C21: whatever the order in which the routes were bootstrapped, the states
\* map iterates and the groups of each pass were visited, a run that has ended
\* has ended as the run of the same routes with every map in ascending key
\* order ends: with a return or with the same abort, and on return with the
\* same commits, by message, with the same sets of parents.
C21_OrderIndependent ==
    Terminated =>
        LET ordered == build_repository_in_order(routes)
        IN  /\ pc = ordered.pc
            /\ panic = ordered.panic
            /\ pc = "returned" => Graph(repo) = Graph(ordered.repo)

\* A run has returned after a merge that was hosted by another branch than in
\* the ordered run, with its commits created in another order.
C21_Witness ==
    /\ pc = "returned"
    /\ MergeCommits # {}
    /\ LET ordered == build_repository_in_order(routes)
       IN  /\ [c \in DOMAIN repo.commits |-> repo.commits[c].message]
                 # [c \in DOMAIN ordered.repo.commits |-> ordered.repo.commits[c].message]
           /\ \E c \in MergeCommits : \E d \in DOMAIN ordered.repo.commits :
                 /\ ordered.repo.commits[d].message = repo.commits[c].message
                 /\ ordered.repo.commits[d].branch # repo.commits[c].branch

====
